---- MODULE Spec2Model ----
(***************************************************************************)
(* Model of get_licenses.py: Package.scrape, the crawl of a package and    *)
(* its dependencies on Hackage with content-hash based license identity.   *)
(* One action models one iteration of the `while len(todo) > 0` loop; the  *)
(* registry (pages, license bodies), the clock and the file system are the *)
(* environment.                                                            *)
(***************************************************************************)
EXTENDS Integers, Sequences, FiniteSets, TLC

\* ------------------------------------------------------------------ bounds
MaxDeps == 2
MaxJitter == 2
MaxDelay == 2
HashBits == 8

\* ------------------------------------------------------------- input sets
Idents == {"a", "b", "c"}
RootIdent == "a"
Types == {"MIT", "BSD"}
None == "None"
\* None where a response object, a time stamp or a path is expected
NoBody == [none |-> TRUE]
NoTime == -1
NoPath == <<>>
NoArgs == [none |-> TRUE]
OutFile == "FILE"
Dir == "DIR"

DepSeqs == UNION {[1..n -> Idents] : n \in 0..MaxDeps}
LeafDeps == {<<>>} \cup {<<d>> : d \in Idents}

\* Bodies a license URL can answer with: texts are sequences of characters.
TextX == <<"x">>
TextXPadded == <<" ", "x", "\n">>
TextEY == <<"e", "y">>
TextErr == <<"e">>
Responses ==
  { [status_code |-> 200, text |-> TextX],
    [status_code |-> 200, text |-> TextXPadded],
    [status_code |-> 200, text |-> TextEY],
    [status_code |-> 404, text |-> TextErr] }

VARIABLES
  pages,         \* registry: ident -> what GET of its package page answers, parsed
  licbody,       \* registry: ident -> what GET of its license URL answers
  download,      \* argument `download`: None or the directory
  delay,         \* argument `delay`
  jitter,        \* environment: the most time units any step may additionally take
  clock,         \* time.time()
  fs,            \* file system below `download`
  pc,            \* "loop", "returned", "reported" or "aborted"
  i,             \* local i
  todo,          \* local todo: the stack of (ident, url, tree) items
  done,          \* local done
  res,           \* local res: ident -> Package
  tree,          \* local tree, rebound by every pop
  heap,          \* the list objects of the dependency tree, by reference
  licenses,      \* local licenses: hash -> License
  last_request,  \* local last_request
  reqlog,        \* history: the requests.get calls made, in order
  added,         \* the idents assigned into res, in order (the dict's key order)
  args,          \* main's arguments output and trim, drawn when main reads output
  report,        \* the lines main printed to `out`
  ioerror        \* history: the I/O operation that raised, if any

vars == <<pages, licbody, download, delay, jitter, clock, fs, pc, i, todo, done,
          res, tree, heap, licenses, last_request, reqlog, added, args, report,
          ioerror>>

world == <<pages, licbody, download, delay, jitter>>
mainvars == <<args, report>>

\* --------------------------------------------------------- pure helpers

hackagify(package) == <<"https://hackage.haskell.org/package/", package>>

IsSpace(c) == c \in {" ", "\n", "\t", "\r"}

RECURSIVE LStrip(_)
LStrip(s) == IF s /= <<>> /\ IsSpace(Head(s)) THEN LStrip(Tail(s)) ELSE s

RECURSIVE RStrip(_)
RStrip(s) ==
  IF s /= <<>> /\ IsSpace(s[Len(s)]) THEN RStrip(SubSeq(s, 1, Len(s) - 1)) ELSE s

\* str.strip()
Strip(s) == RStrip(LStrip(s))

Ord(c) ==
  CASE c = " " -> 32
    [] c = "\n" -> 10
    [] c = "\t" -> 9
    [] c = "\r" -> 13
    [] c = "e" -> 101
    [] c = "x" -> 120
    [] c = "y" -> 121

RECURSIVE Pow2(_)
Pow2(n) == IF n = 0 THEN 1 ELSE 2 * Pow2(n - 1)

RECURSIVE HashAcc(_, _)
HashAcc(s, h) ==
  IF s = <<>> THEN h ELSE HashAcc(Tail(s), (h * 31 + Ord(Head(s))) % Pow2(HashBits))

\* hash(str): a signed integer of fixed width; the empty string hashes to 0
Hash(s) ==
  LET u == HashAcc(s, 0)
  IN IF u >= Pow2(HashBits - 1) THEN u - Pow2(HashBits) ELSE u

HexDigit(d) ==
  <<"0", "1", "2", "3", "4", "5", "6", "7", "8", "9", "a", "b", "c", "d", "e", "f">>[d + 1]

RECURSIVE HexDigits(_)
HexDigits(n) ==
  IF n < 16 THEN <<HexDigit(n)>> ELSE HexDigits(n \div 16) \o <<HexDigit(n % 16)>>

\* hex(n): "0x.." or "-0x.."
Hex(n) ==
  IF n < 0 THEN <<"-", "0", "x">> \o HexDigits(-n) ELSE <<"0", "x">> \o HexDigits(n)

\* s[2:]
DropTwo(s) == SubSeq(s, 3, Len(s))

Unhashed == <<"<", "u", "n", "h", "a", "s", "h", "e", "d", ">">>

\* faulty variant: the body is hashed as received, not trimmed
LicenseHashMut(license_body) ==
  IF license_body /= NoBody THEN DropTwo(Hex(Hash(license_body.text))) ELSE Unhashed

\* lines 286-292: the hash of the response's trimmed text when a response object
\* exists, else the sentinel
LicenseHash(license_body) ==
  IF license_body /= NoBody THEN DropTwo(Hex(Hash(Strip(license_body.text)))) ELSE Unhashed

\* faulty variant: every License counts, whatever its type
NOfThisTypeMut(lics, license) == Cardinality(DOMAIN lics)

\* line 297
NOfThisType(lics, license) ==
  Cardinality({h \in DOMAIN lics : lics[h].type = license})

\* faulty variant: the name is the declared type, without the counter
LicenseNameMut(license, n) == license

\* line 298
LicenseName(license, n) ==
  IF n = 0 THEN license ELSE license \o "(" \o ToString(n) \o ")"

\* os.path.join(os.path.join(download, license), ident)
PathOf(license, ident) == <<download, license, ident>>

\* class License, __init__
License(name, type, shash, path) ==
  [name |-> name, type |-> type, shash |-> shash, path |-> path, packages |-> <<>>]

\* class Package, __init__ (short is not modelled)
Package(ident, url, license, license_url, license_hash) ==
  [ident |-> ident, url |-> url, license |-> license,
   license_url |-> license_url, license_hash |-> license_hash]

\* dict assignment d[k] = v
Put(d, k, v) == [x \in DOMAIN d \cup {k} |-> IF x = k THEN v ELSE d[x]]

EmptyMap == [x \in {} |-> None]

\* lines 238-240: the time at which the page request is issued
PageWake(now, last) ==
  IF last /= NoTime /\ now - last < delay THEN now + (delay - (now - last)) ELSE now

\* faulty variant: the license request does not wait
LicenseWakeMut(now, last) == now

\* lines 276-278: the time at which the license request is issued
LicenseWake(now, last) ==
  IF now - last < delay THEN now + (delay - (now - last)) ELSE now

\* ------------------------------------------------------ the loop's steps

\* line 214: todo.pop() takes the last item
Item == todo[Len(todo)]
Popped == SubSeq(todo, 1, Len(todo) - 1)

\* faulty variant: the check of line 220 is missing
FreshMut == pc = "loop" /\ todo /= <<>>

\* line 213, and line 220 not taken
Enters == pc = "loop" /\ todo /= <<>>
Fresh == Enters /\ Item.ident \notin done

\* lines 226-235: the download folder is looked for, and made when missing
RootMissing == download /= None /\ ~fs.root
WithRoot == IF download /= None THEN [fs EXCEPT !.root = TRUE] ELSE fs

\* lines 238-244: the page request, after `e` units passed and taking `d` units
PageRequest(e, d) ==
  LET at == PageWake(clock + e, last_request)
  IN [kind |-> "page", ident |-> Item.ident, issued |-> at, completed |-> at + d,
      status_code |-> pages[Item.ident].status_code]

\* lines 276-280: the license request, `e` units after the page request completed
LicenseRequest(prev, e, d) ==
  LET at == LicenseWake(prev.completed + e, prev.completed)
  IN [kind |-> "license", ident |-> Item.ident, issued |-> at, completed |-> at + d,
      status_code |-> licbody[Item.ident].status_code]

\* lines 274-280: the response object when a license URL was found, else None
LicenseBody(page, ident) ==
  IF page.license_url /= None THEN licbody[ident] ELSE NoBody

\* faulty variant: a known hash under another declared type is registered anew
RegisterMut(lics, license, license_hash, ident) ==
  IF license_hash \notin DOMAIN lics \/ lics[license_hash].type /= license
  THEN Put(lics, license_hash,
           License(LicenseName(license, NOfThisType(lics, license)), license,
                   license_hash,
                   IF download /= None THEN PathOf(license, ident) ELSE NoPath))
  ELSE lics

\* lines 295-314: a License is made for a hash not seen before
Register(lics, license, license_hash, ident) ==
  IF license_hash \notin DOMAIN lics
  THEN Put(lics, license_hash,
           License(LicenseName(license, NOfThisType(lics, license)), license,
                   license_hash,
                   IF download /= None THEN PathOf(license, ident) ELSE NoPath))
  ELSE lics

\* faulty variant: the trimmed text is written
WriteBodyMut(f, path, license_body) ==
  [f EXCEPT !.files = Put(@, path, Strip(license_body.text))]

\* lines 317-321: open(path, "w") and h.write(license_body.text)
WriteBody(f, path, license_body) ==
  [f EXCEPT !.files = Put(@, path, license_body.text)]

\* faulty variant: the ident is appended only when the License was just made
RecordUsageNewMut(lics, license_hash, ident) ==
  IF lics[license_hash].packages = <<>>
  THEN [lics EXCEPT ![license_hash].packages = Append(@, ident)]
  ELSE lics

\* faulty variant: the ident replaces the list of packages
RecordUsageResetMut(lics, license_hash, ident) ==
  [lics EXCEPT ![license_hash].packages = <<ident>>]

\* faulty variant: the ident is appended only to a License of its declared type
RecordUsageTypeMut(lics, license_hash, ident) ==
  IF lics[license_hash].type = pages[ident].license
  THEN [lics EXCEPT ![license_hash].packages = Append(@, ident)]
  ELSE lics

\* line 327
RecordUsage(lics, license_hash, ident) ==
  [lics EXCEPT ![license_hash].packages = Append(@, ident)]

\* faulty variant: a dependency that was done before is not hung under the node
ChildListsMut(hp, cur, deps) ==
  [n \in 1..(Len(hp) + Len(deps)) |->
     IF n = cur
     THEN hp[cur] \o SelectSeq([j \in 1..Len(deps) |-> <<deps[j], Len(hp) + j>>],
                               LAMBDA c : c[1] \notin done)
     ELSE IF n <= Len(hp) THEN hp[n] ELSE <<>>]

\* lines 334-337: every dependency gets a fresh child list, hung under the
\* current node
ChildLists(hp, cur, deps) ==
  [n \in 1..(Len(hp) + Len(deps)) |->
     IF n = cur THEN hp[cur] \o [j \in 1..Len(deps) |-> <<deps[j], Len(hp) + j>>]
     ELSE IF n <= Len(hp) THEN hp[n] ELSE <<>>]

\* faulty variant: the last dependency is not pushed
EnqueueMut(td, hp, deps) ==
  td \o [j \in 1..(Len(deps) - 1) |->
           [ident |-> deps[j], url |-> hackagify(deps[j]), tree |-> Len(hp) + j]]

\* lines 334-337: and is pushed on the stack
Enqueue(td, hp, deps) ==
  td \o [j \in 1..Len(deps) |->
           [ident |-> deps[j], url |-> hackagify(deps[j]), tree |-> Len(hp) + j]]

\* lines 214-215, common to every iteration
Pop ==
  /\ i' = i + 1
  /\ tree' = [kind |-> "list", list |-> Item.tree]

\* faulty variant: the item of an ident done before is left on the queue
SkipMut ==
  /\ Enters
  /\ Item.ident \in done
  /\ UNCHANGED <<world, mainvars, clock, fs, pc, i, todo, done, res, tree, heap, licenses,
                 last_request, reqlog, added, ioerror>>

\* lines 219-223: the ident was done before
Skip ==
  /\ Enters
  /\ Item.ident \in done
  /\ Pop
  /\ todo' = Popped
  /\ UNCHANGED <<world, mainvars, clock, fs, pc, done, res, heap, licenses, last_request,
                 reqlog, added>>
  /\ UNCHANGED ioerror

\* lines 231-235: os.makedirs(download) raises
AbortDownloadRoot ==
  /\ Fresh
  /\ RootMissing
  /\ Pop
  /\ todo' = Popped
  /\ pc' = "aborted"
  /\ UNCHANGED <<world, mainvars, clock, fs, done, res, heap, licenses, last_request,
                 reqlog, added>>
  /\ ioerror' = "download"

\* faulty variant: the failed ident is not added to done
PageFailMut ==
  /\ Fresh
  /\ pages[Item.ident].status_code /= 200
  /\ \E e, d \in 0..jitter :
       LET r == PageRequest(e, d)
       IN /\ clock' = r.completed
          /\ last_request' = r.completed
          /\ reqlog' = Append(reqlog, r)
  /\ Pop
  /\ todo' = Popped
  /\ fs' = WithRoot
  /\ UNCHANGED <<world, mainvars, pc, done, res, heap, licenses, added>>
  /\ UNCHANGED ioerror

\* lines 245-249: the page request answers with a status other than 200
PageFail ==
  /\ Fresh
  /\ pages[Item.ident].status_code /= 200
  /\ \E e, d \in 0..jitter :
       LET r == PageRequest(e, d)
       IN /\ clock' = r.completed
          /\ last_request' = r.completed
          /\ reqlog' = Append(reqlog, r)
  /\ Pop
  /\ todo' = Popped
  /\ fs' = WithRoot
  /\ done' = done \cup {Item.ident}
  /\ UNCHANGED <<world, mainvars, pc, res, heap, licenses, added>>
  /\ UNCHANGED ioerror

\* lines 225-337: the whole iteration for a page that answers 200
Process ==
  /\ Fresh
  /\ pages[Item.ident].status_code = 200
  /\ \E e1, d1, e2, d2 \in 0..jitter :
       LET ident == Item.ident
           page == pages[ident]
           license == page.license
           r1 == PageRequest(e1, d1)
           license_body == LicenseBody(page, ident)
           r2 == LicenseRequest(r1, e2, d2)
           log == IF license_body /= NoBody THEN <<r1, r2>> ELSE <<r1>>
           license_hash == LicenseHash(license_body)
           new == license_hash \notin DOMAIN licenses
           path == PathOf(license, ident)
           fs1 == WithRoot
           fs2 == IF new /\ download /= None
                  THEN [fs1 EXCEPT !.dirs = @ \cup {license}] ELSE fs1
           fs3 == IF new /\ download /= None /\ license_body /= NoBody
                  THEN WriteBody(fs2, path, license_body)
                  ELSE fs2
       IN /\ clock' = log[Len(log)].completed
          /\ last_request' = log[Len(log)].completed
          /\ reqlog' = reqlog \o log
          /\ fs' = fs3
          /\ licenses' = RecordUsage(Register(licenses, license, license_hash, ident),
                                     license_hash, ident)
          /\ res' = Put(res, ident,
                        Package(ident, Item.url, license, page.license_url, license_hash))
          /\ added' = Append(added, ident)
          /\ done' = done \cup {ident}
          /\ heap' = ChildLists(heap, Item.tree, page.deps)
          /\ todo' = Enqueue(Popped, heap, page.deps)
  /\ Pop
  /\ UNCHANGED <<world, mainvars, pc>>
  /\ UNCHANGED ioerror

\* lines 304-310: os.makedirs(dir) raises for the directory of a new license
AbortTypeDir ==
  /\ Fresh
  /\ pages[Item.ident].status_code = 200
  /\ download /= None
  /\ \E e1, d1, e2, d2 \in 0..jitter :
       LET ident == Item.ident
           page == pages[ident]
           r1 == PageRequest(e1, d1)
           license_body == LicenseBody(page, ident)
           r2 == LicenseRequest(r1, e2, d2)
           log == IF license_body /= NoBody THEN <<r1, r2>> ELSE <<r1>>
           license_hash == LicenseHash(license_body)
       IN /\ license_hash \notin DOMAIN licenses
          /\ page.license \notin fs.dirs
          /\ clock' = log[Len(log)].completed
          /\ last_request' = log[Len(log)].completed
          /\ reqlog' = reqlog \o log
  /\ Pop
  /\ todo' = Popped
  /\ fs' = WithRoot
  /\ pc' = "aborted"
  /\ UNCHANGED <<world, mainvars, done, res, heap, licenses, added>>
  /\ ioerror' = "dir"

\* faulty variant: the failed write is recorded and the loop goes on
AbortWriteMut ==
  /\ Fresh
  /\ pages[Item.ident].status_code = 200
  /\ download /= None
  /\ LicenseBody(pages[Item.ident], Item.ident) /= NoBody
  /\ LicenseHash(LicenseBody(pages[Item.ident], Item.ident)) \notin DOMAIN licenses
  /\ licenses' = Register(licenses, pages[Item.ident].license,
                          LicenseHash(LicenseBody(pages[Item.ident], Item.ident)),
                          Item.ident)
  /\ Pop
  /\ todo' = Popped
  /\ fs' = WithRoot
  /\ ioerror' = "write"
  /\ UNCHANGED <<world, mainvars, clock, last_request, reqlog, pc, done, res, heap, added>>

\* lines 314-324: the License is stored, then writing its body raises; the file
\* is left missing, or created and empty
AbortWrite ==
  /\ Fresh
  /\ pages[Item.ident].status_code = 200
  /\ download /= None
  /\ \E e1, d1, e2, d2 \in 0..jitter, created \in BOOLEAN :
       LET ident == Item.ident
           page == pages[ident]
           license == page.license
           r1 == PageRequest(e1, d1)
           license_body == LicenseBody(page, ident)
           r2 == LicenseRequest(r1, e2, d2)
           license_hash == LicenseHash(license_body)
           fs2 == [WithRoot EXCEPT !.dirs = @ \cup {license}]
       IN /\ license_body /= NoBody
          /\ license_hash \notin DOMAIN licenses
          /\ clock' = r2.completed
          /\ last_request' = r2.completed
          /\ reqlog' = reqlog \o <<r1, r2>>
          /\ licenses' = Register(licenses, license, license_hash, ident)
          /\ fs' = IF created
                   THEN [fs2 EXCEPT !.files = Put(@, PathOf(license, ident), <<>>)]
                   ELSE fs2
  /\ Pop
  /\ todo' = Popped
  /\ pc' = "aborted"
  /\ UNCHANGED <<world, mainvars, done, res, heap, added>>
  /\ ioerror' = "write"

\* lines 213, 340: the queue is empty, (res, tree, licenses) is returned
Return ==
  /\ pc = "loop"
  /\ todo = <<>>
  /\ pc' = "returned"
  /\ UNCHANGED <<world, mainvars, clock, fs, i, todo, done, res, tree, heap, licenses,
                 last_request, reqlog, added>>
  /\ UNCHANGED ioerror

\* lines 213-337 with the queue taken from the front (todo.pop(0)): the idents
\* added to the package map, in order, and the license map, when no file
\* operation fails
RECURSIVE FifoCrawl(_, _, _, _)
FifoCrawl(td, dn, order, lics) ==
  IF td = <<>> THEN [order |-> order, licenses |-> lics]
  ELSE LET ident == Head(td)
           page == pages[ident]
           license_hash == LicenseHash(LicenseBody(page, ident))
       IN IF ident \in dn THEN FifoCrawl(Tail(td), dn, order, lics)
          ELSE IF page.status_code /= 200
          THEN FifoCrawl(Tail(td), dn \cup {ident}, order, lics)
          ELSE FifoCrawl(Tail(td) \o page.deps, dn \cup {ident}, Append(order, ident),
                         RecordUsage(Register(lics, page.license, license_hash, ident),
                                     license_hash, ident))

\* --------------------------------------------------------------- main

\* line 378: the declared types of the Licenses found
SectionTypes == {licenses[h].type : h \in DOMAIN licenses}

\* the orders in which a set can be iterated
Orders(S) == {o \in [1..Cardinality(S) -> S] : {o[k] : k \in 1..Cardinality(S)} = S}

\* line 382: the idents of pkgs, in the dict's order, whose declared license is
\* the section's type
UsedBy(type) == SelectSeq(added, LAMBDA ident : res[ident].license = type)

\* lines 379-384: the lines of one section; `trim` is not consulted
Section(type, trim) ==
  <<<<"">>, <<"License", type>>, <<"Used by">>>>
    \o [k \in 1..Len(UsedBy(type)) |-> <<"-", UsedBy(type)[k]>>]
    \o <<<<"">>>>

\* lines 378-384: the sections in the order the set of types is iterated
RECURSIVE Sections(_, _)
Sections(order, trim) ==
  IF order = <<>> THEN <<>>
  ELSE Section(Head(order), trim) \o Sections(Tail(order), trim)

\* lines 360-387: scrape has returned; `out` is stdout or the output file,
\* opened, and the report is printed
Report ==
  /\ pc = "returned"
  /\ \E output \in {"-", OutFile}, trim \in BOOLEAN, order \in Orders(SectionTypes) :
       /\ args' = [output |-> output, trim |-> trim]
       /\ report' = report \o Sections(order, trim)
  /\ pc' = "reported"
  /\ UNCHANGED <<world, clock, fs, i, todo, done, res, tree, heap, licenses,
                 last_request, reqlog, added, ioerror>>

\* lines 370-375: open(output, "w") raises
AbortOpen ==
  /\ pc = "returned"
  /\ \E trim \in BOOLEAN : args' = [output |-> OutFile, trim |-> trim]
  /\ pc' = "aborted"
  /\ ioerror' = "output"
  /\ UNCHANGED <<world, clock, fs, i, todo, done, res, tree, heap, licenses,
                 last_request, reqlog, added, report>>

\* ------------------------------------------------------------------ inputs

FailPage == [status_code |-> 404, license |-> None, license_url |-> None, deps |-> <<>>]
OkPage(license, license_url, deps) ==
  [status_code |-> 200, license |-> license, license_url |-> license_url, deps |-> deps]
NoResponse == [status_code |-> 404, text |-> <<>>]
Href == "href"

Chain == [id \in Idents |->
            CASE id = "a" -> <<"b">> [] id = "b" -> <<"c">> [] OTHER -> <<>>]
Star == [id \in Idents |-> IF id = "a" THEN <<"b", "c">> ELSE <<>>]

\* lines 205-212: the locals as scrape sets them up
InitLocals ==
  /\ clock = 0
  /\ pc = "loop"
  /\ i = 0
  /\ todo = <<[ident |-> RootIdent, url |-> hackagify(RootIdent), tree |-> 1]>>
  /\ done = {}
  /\ res = EmptyMap
  /\ tree = [kind |-> "tuple", ident |-> RootIdent, list |-> 1]
  /\ heap = <<<<>>>>
  /\ licenses = EmptyMap
  /\ last_request = NoTime
  /\ reqlog = <<>>
  /\ added = <<>>
  /\ args = NoArgs
  /\ report = <<>>
  /\ ioerror = None

\* dependency graphs (with cycles, diamonds, repeated and self dependencies) and
\* any page outcomes; licenses by name only. The last ident lists at most one
\* dependency.
InitGraph ==
  /\ \E pa, pb \in {FailPage} \cup {OkPage("MIT", None, d) : d \in DepSeqs},
        pc_ \in {FailPage} \cup {OkPage("MIT", None, d) : d \in LeafDeps} :
       pages = [id \in Idents |-> CASE id = "a" -> pa [] id = "b" -> pb [] OTHER -> pc_]
  /\ licbody = [id \in Idents |-> NoResponse]
  /\ download = None
  /\ delay = 0
  /\ jitter = 0
  /\ fs = [root |-> FALSE, dirs |-> {}, files |-> EmptyMap]

\* two graphs; any declared types, license URLs and license responses;
\* with and without a download folder
InitLicenses ==
  /\ \E g \in {Chain, Star}, ty \in [Idents -> Types],
        body \in [Idents -> {NoBody} \cup Responses] :
       /\ pages = [id \in Idents |->
                     OkPage(ty[id], IF body[id] = NoBody THEN None ELSE Href, g[id])]
       /\ licbody = [id \in Idents |-> IF body[id] = NoBody THEN NoResponse ELSE body[id]]
  /\ download \in {None, Dir}
  /\ fs = [root |-> FALSE, dirs |-> {}, files |-> EmptyMap]
  /\ delay = 0
  /\ jitter = 0

\* a package, with a license URL or not, and its dependency; any delay, and
\* steps that take time
InitTiming ==
  /\ \E url \in {None, Href} :
       pages = [id \in Idents |->
                  CASE id = "a" -> OkPage("MIT", url, <<"b">>)
                    [] id = "b" -> OkPage("MIT", None, <<>>)
                    [] OTHER -> FailPage]
  /\ licbody = [id \in Idents |-> [status_code |-> 200, text |-> TextX]]
  /\ download = None
  /\ delay \in 0..MaxDelay
  /\ jitter = MaxJitter
  /\ fs = [root |-> FALSE, dirs |-> {}, files |-> EmptyMap]

Init == InitLocals /\ (InitGraph \/ InitLicenses \/ InitTiming)

Next ==
  \/ Skip
  \/ AbortDownloadRoot
  \/ PageFail
  \/ Process
  \/ AbortTypeDir
  \/ AbortWrite
  \/ Return
  \/ Report
  \/ AbortOpen

Spec == Init /\ [][Next]_vars

\* ------------------------------------------------------------ properties

Range(q) == {q[k] : k \in 1..Len(q)}
Count(q, x) == Cardinality({k \in 1..Len(q) : q[k] = x})

\* the number of page requests made for an ident, in a log of requests
PageGetsIn(log, id) ==
  Cardinality({k \in 1..Len(log) : log[k].kind = "page" /\ log[k].ident = id})

\* how often an ident was put on the stack: the root once, and once per
\* occurrence in a child list
Enqueued(id) ==
  (IF id = RootIdent THEN 1 ELSE 0)
  + Cardinality({nk \in UNION {{<<n, k>> : k \in 1..Len(heap[n])} : n \in 1..Len(heap)} :
                   heap[nk[1]][nk[2]][1] = id})

\* the idents the root leads to over the dependencies of pages that answer 200
RECURSIVE ReachFrom(_)
ReachFrom(S) ==
  LET T == S \cup {d \in Idents : \E p \in S : /\ pages[p].status_code = 200
                                               /\ d \in Range(pages[p].deps)}
  IN IF T = S THEN S ELSE ReachFrom(T)
Reachable == ReachFrom({RootIdent})

\* a package for which a license response was received
HasBody(p) == p \in DOMAIN res /\ pages[p].license_url /= None
Bodyless(p) == p \in DOMAIN res /\ pages[p].license_url = None
EntriesOf(p) == {h \in DOMAIN licenses : p \in Range(licenses[h].packages)}
SameEntry(p, q) == EntriesOf(p) \cap EntriesOf(q) /= {}
ContentHash(p) == Hash(Strip(licbody[p].text))

\* C1: the page of an ident is requested at most once in a run, and an ident is
\* entered into the package map at most once.
C1_FetchedAtMostOnce ==
  \A id \in Idents :
    /\ PageGetsIn(reqlog, id) <= 1
    /\ Count(added, id) <= 1
    /\ (id \in DOMAIN res <=> Count(added, id) = 1)

\* C1 happens: a run has returned in which an ident was put on the stack more
\* than once (a diamond, a cycle or a repeated dependency) and fetched once.
C1_Witness ==
  /\ pc = "returned"
  /\ \E id \in Idents : Enqueued(id) >= 2 /\ PageGetsIn(reqlog, id) = 1
  /\ Cardinality(DOMAIN res) = 3

\* C2: on return, the visited set is exactly the set of idents reachable from
\* the root over dependencies of successfully fetched packages, and the package
\* map holds exactly the reachable idents whose page answered 200.
C2_VisitedIsReachable ==
  pc = "returned" =>
    /\ done = Reachable
    /\ DOMAIN res = {id \in Reachable : pages[id].status_code = 200}

\* C2 happens: a returned run with an unreachable ident and a reachable ident
\* whose page failed.
C2_Witness ==
  /\ pc = "returned"
  /\ Cardinality(Reachable) = 2
  /\ \E id \in Reachable : pages[id].status_code /= 200
  /\ \E id \in Idents \ Reachable : pages[id].status_code = 200

\* C3: two packages whose license bodies were fetched are listed in the same
\* License entry exactly when their trimmed bodies have the same content hash,
\* and each is listed in exactly one entry.
C3_SameEntryIffSameHash ==
  \A p, q \in Idents :
    HasBody(p) /\ HasBody(q) =>
      /\ SameEntry(p, q) <=> ContentHash(p) = ContentHash(q)
      /\ Cardinality(EntriesOf(p)) = 1

\* C3 happens: two packages declaring MIT whose bodies differ only in
\* surrounding whitespace share one entry, a third with another body does not.
C3_Witness ==
  /\ pc = "returned"
  /\ \E p, q, r \in Idents :
       /\ HasBody(p) /\ HasBody(q) /\ HasBody(r)
       /\ res[p].license = "MIT" /\ res[q].license = "MIT"
       /\ licbody[p].text /= licbody[q].text
       /\ SameEntry(p, q)
       /\ ~SameEntry(p, r)

\* C4 as claimed: two packages with identical license bodies and different
\* declared names X and Y give two distinct entries, named X and Y.
C4_Original ==
  pc = "returned" =>
    \A p, q \in Idents :
      /\ HasBody(p) /\ HasBody(q)
      /\ licbody[p].text = licbody[q].text
      /\ res[p].license /= res[q].license
      => \E h1, h2 \in DOMAIN licenses :
           /\ h1 /= h2
           /\ licenses[h1].name = res[p].license
           /\ licenses[h2].name = res[q].license

\* C4 amended: two packages with identical license bodies and different declared
\* names share the single License entry of that content hash; it lists both and
\* its type is the declared name of the first package listed in it.
C4_OneEntryForIdenticalBodies ==
  pc = "returned" =>
    \A p, q \in Idents :
      /\ HasBody(p) /\ HasBody(q)
      /\ licbody[p].text = licbody[q].text
      /\ res[p].license /= res[q].license
      => /\ EntriesOf(p) = {res[p].license_hash}
         /\ EntriesOf(q) = {res[p].license_hash}
         /\ LET e == licenses[res[p].license_hash]
            IN /\ e.type = res[e.packages[1]].license
               /\ e.name \in {e.type} \cup {LicenseName(e.type, n) : n \in 1..3}

\* C4 happens: identical bodies under the names MIT and BSD, one entry.
C4_Witness ==
  /\ pc = "returned"
  /\ \E p, q \in Idents :
       /\ HasBody(p) /\ HasBody(q)
       /\ licbody[p].text = licbody[q].text
       /\ res[p].license = "MIT" /\ res[q].license = "BSD"
       /\ SameEntry(p, q)

\* C5: the name of a newly registered License is its declared type T when no
\* entry of type T existed, and T(n) when n >= 1 entries of type T existed;
\* entries of other types do not count. So the entries of a type T, k of them,
\* carry the names T, T(1), .., T(k-1).
C5_CounterScopedToType ==
  [][ /\ \A h \in DOMAIN licenses' \ DOMAIN licenses :
           LET T == licenses'[h].type
               n == Cardinality({g \in DOMAIN licenses : licenses[g].type = T})
           IN licenses'[h].name =
                IF n = 0 THEN T ELSE T \o "(" \o ToString(n) \o ")"
      /\ \A T \in Types :
           LET k == Cardinality({g \in DOMAIN licenses' : licenses'[g].type = T})
           IN {licenses'[g].name : g \in {x \in DOMAIN licenses' : licenses'[x].type = T}}
                = {IF n = 0 THEN T ELSE T \o "(" \o ToString(n) \o ")" : n \in 0..(k - 1)}
    ]_vars

\* C5 happens: entries MIT and MIT(1), with an entry BSD registered between them.
C5_Witness ==
  /\ pc = "returned"
  /\ {licenses[h].name : h \in DOMAIN licenses} = {"MIT", "BSD", "MIT(1)"}
  /\ \E h \in DOMAIN licenses :
       licenses[h].name = "MIT(1)" /\ licenses[h].packages = <<"c">>

\* C6 as claimed: two packages without a license body share a License entry
\* exactly when their declared types are the same.
C6_SentinelPerType ==
  \A p, q \in Idents :
    Bodyless(p) /\ Bodyless(q) =>
      (SameEntry(p, q) <=> res[p].license = res[q].license)

\* C7 as claimed: a package whose license request answered another status than
\* 200 is in the package map with the unhashed sentinel as license_hash.
C7_FailedBodyIsUnhashed ==
  \A p \in done :
    /\ pages[p].status_code = 200
    /\ pages[p].license_url /= None
    /\ licbody[p].status_code /= 200
    => p \in DOMAIN res /\ res[p].license_hash = Unhashed

\* C8: the step that requests a page answering another status than 200 adds the
\* ident to the visited set, records no Package and no License usage and pushes
\* nothing; from then on the ident has been requested exactly once, and it is in
\* no License's list and not in the package map.
C8_FailedPageDropped ==
  [][ \A id \in Idents :
        pages[id].status_code /= 200 =>
          /\ PageGetsIn(reqlog', id) > PageGetsIn(reqlog, id) =>
               /\ id \in done'
               /\ res' = res
               /\ licenses' = licenses
               /\ heap' = heap
               /\ todo' = SubSeq(todo, 1, Len(todo) - 1)
          /\ id \in done =>
               /\ PageGetsIn(reqlog', id) = 1
               /\ id \notin DOMAIN res'
               /\ \A h \in DOMAIN licenses' : id \notin Range(licenses'[h].packages)
    ]_vars

\* C8 happens: a returned run in which an ident whose page failed was a
\* dependency of two parents.
C8_Witness ==
  /\ pc = "returned"
  /\ \E id \in done :
       /\ pages[id].status_code /= 200
       /\ \E m, n \in 1..Len(heap) :
            /\ m /= n
            /\ \E k \in 1..Len(heap[m]) : heap[m][k][1] = id
            /\ \E k \in 1..Len(heap[n]) : heap[n][k][1] = id
       /\ PageGetsIn(reqlog, id) = 1
       /\ id \notin DOMAIN res

\* C9: a request, for a page or for a license body, is issued no sooner than
\* `delay` after the time stamp taken when the request before it completed, so
\* consecutive requests are issued at least `delay` apart.
C9_RequestsSpaced ==
  \A k \in 2..Len(reqlog) :
    /\ reqlog[k].issued - reqlog[k - 1].completed >= delay
    /\ reqlog[k].issued - reqlog[k - 1].issued >= delay

\* C9 happens: page, license and page requests in a row under a positive delay,
\* one issued exactly `delay` after the one before completed, one later.
C9_Witness ==
  /\ delay > 0
  /\ Len(reqlog) >= 3
  /\ reqlog[1].kind = "page" /\ reqlog[2].kind = "license" /\ reqlog[3].kind = "page"
  /\ reqlog[2].issued - reqlog[1].completed = delay
  /\ reqlog[3].issued - reqlog[2].completed > delay

\* C10 as claimed: with a download directory, every package whose body was
\* fetched has its own file DIR/<declared type>/<ident> holding that body.
C10_Original ==
  (pc = "returned" /\ download /= None) =>
    \A p \in Idents :
      HasBody(p) =>
        /\ <<download, res[p].license, p>> \in DOMAIN fs.files
        /\ fs.files[<<download, res[p].license, p>>] = licbody[p].text

\* C10 amended: with a download directory, the files written are exactly one per
\* License entry whose first package had a body fetched: the file
\* DIR/<entry's type>/<first package> holding that package's body as received,
\* which is the entry's path; a package whose hash was registered before gets
\* no file.
C10_OneFilePerLicense ==
  (pc = "returned" /\ download /= None) =>
    /\ \A h \in DOMAIN licenses :
         LET e == licenses[h]
             first == e.packages[1]
         IN /\ e.path = <<download, e.type, first>>
            /\ e.type = res[first].license
            /\ HasBody(first) =>
                 /\ e.path \in DOMAIN fs.files
                 /\ fs.files[e.path] = licbody[first].text
    /\ DOMAIN fs.files =
         {licenses[h].path : h \in {g \in DOMAIN licenses : HasBody(licenses[g].packages[1])}}

\* C10 happens: two packages with fetched bodies share an entry and only the
\* first has a file, whose text is not its trimmed text.
C10_Witness ==
  /\ pc = "returned"
  /\ download /= None
  /\ \E p, q \in Idents :
       /\ p /= q /\ HasBody(p) /\ HasBody(q)
       /\ SameEntry(p, q)
       /\ <<download, res[p].license, p>> \in DOMAIN fs.files
       /\ fs.files[<<download, res[p].license, p>>] /= Strip(licbody[p].text)
       /\ <<download, res[q].license, q>> \notin DOMAIN fs.files

\* the type named by the last section header at or before line j of the report
SectionAt(j) ==
  LET hs == {m \in 1..j : report[m][1] = "License"}
  IN report[CHOOSE m \in hs : \A n \in hs : n <= m][2]

\* the report's package lines
PackageLines == {j \in 1..Len(report) : report[j][1] = "-"}

\* the idents listed in the report's section for a type
ListedIn(T) == {report[j][2] : j \in {k \in PackageLines : SectionAt(k) = T}}

\* the type of the License a package resolved to
ResolvedType(p) == licenses[res[p].license_hash].type

\* C11 as claimed: the section of a declared type T lists exactly the packages
\* whose License entry (the one keyed by their license_hash) has type T, and
\* every package of the map is listed in exactly one section.
C11_SectionsByResolvedType ==
  pc = "reported" =>
    /\ \A T \in Types : ListedIn(T) = {p \in DOMAIN res : ResolvedType(p) = T}
    /\ \A p \in DOMAIN res : Cardinality({j \in PackageLines : report[j][2] = p}) = 1

\* C12 as claimed: with trim set the report has the section names and no package
\* line; without it every section lists its packages.
C12_TrimOmitsPackages ==
  pc = "reported" =>
    /\ args.trim => PackageLines = {}
    /\ ~args.trim => \A T \in SectionTypes : ListedIn(T) = Range(UsedBy(T))

\* C13 as claimed: the tree scrape returns is the node of the root ident,
\* (root_ident, children).
C13_ReturnsRootNode ==
  pc = "returned" => tree = [kind |-> "tuple", ident |-> RootIdent, list |-> 1]

\* the nodes of the tree: the root's tuple and every (ident, children) tuple
\* appended to a child list
Nodes ==
  {<<RootIdent, 1>>} \cup UNION {Range(heap[n]) : n \in 1..Len(heap)}

\* the idents of the children of a node, in order
ChildIdents(node) == [k \in 1..Len(heap[node[2]]) |-> heap[node[2]][k][1]]

\* C is recorded as a child under the processed parent P
ChildUnder(C, P) ==
  \E node \in Nodes :
    /\ node[1] = P
    /\ ChildIdents(node) = pages[P].deps
    /\ C \in Range(ChildIdents(node))

\* the processed parents that list C
ParentsOf(C) == {P \in DOMAIN res : C \in Range(pages[P].deps)}

\* C14 as claimed: on return, an ident listed by two processed parents, or by a
\* parent processed when it was visited already, is a child under each of them
\* and has exactly one Package record.
C14_Original ==
  pc = "returned" =>
    \A C \in Idents :
      ParentsOf(C) /= {} /\ (Cardinality(ParentsOf(C)) >= 2 \/ ParentsOf(C) = {C}) =>
        /\ \A P \in ParentsOf(C) : ChildUnder(C, P)
        /\ Count(added, C) = 1

\* C14, amended: every ident a processed parent lists is a child under that
\* parent, however often it is listed and whether or not it was visited before;
\* no ident is ever recorded twice in the package map; and on return the ident
\* has one record exactly when its page answered 200, none otherwise.
C14_SharedChildOneRecord ==
  /\ \A C \in Idents : \A P \in ParentsOf(C) : ChildUnder(C, P)
  /\ \A C \in Idents : Count(added, C) = (IF C \in DOMAIN res THEN 1 ELSE 0)
  /\ pc = "returned" =>
       \A C \in Idents : ParentsOf(C) /= {} =>
         (C \in DOMAIN res <=> pages[C].status_code = 200)

\* reached: c is a child under both of its processed parents a and b, and a
\* refers back to itself, with one record each
C14_Witness ==
  /\ pc = "returned"
  /\ {"a", "b"} \subseteq ParentsOf("c")
  /\ "a" \in ParentsOf("a")
  /\ ChildUnder("c", "a") /\ ChildUnder("c", "b") /\ ChildUnder("a", "a")
  /\ Count(added, "c") = 1 /\ Count(added, "a") = 1

\* the groups of packages that share a License entry
Partition(lics) == {Range(lics[h].packages) : h \in DOMAIN lics}

\* the crawl of the same inputs in FIFO order
Fifo == FifoCrawl(<<RootIdent>>, {}, <<>>, EmptyMap)

\* C15: when scrape returns, the idents of the package map and the grouping of
\* the packages into License entries (and the hashes the entries are keyed by)
\* are those a FIFO crawl of the same graph, fetch outcomes and license bodies
\* ends with.
C15_OrderIndependent ==
  pc = "returned" =>
    /\ DOMAIN res = Range(Fifo.order)
    /\ DOMAIN licenses = DOMAIN Fifo.licenses
    /\ Partition(licenses) = Partition(Fifo.licenses)

\* reached: the two orders process the packages in different sequences, and
\* there are two entries, one of them shared
C15_Witness ==
  /\ pc = "returned"
  /\ added /= Fifo.order
  /\ Cardinality(DOMAIN licenses) >= 2
  /\ \E h \in DOMAIN licenses : Len(licenses[h].packages) >= 2

\* C16: a report line exists only once the crawl has returned with an empty
\* queue, the output target is open and no file operation failed; after a failed
\* creation of the download root or of a type's directory, a failed write of a
\* license file or a failed opening of the output file, the run is aborted and
\* the report is empty.
C16_ReportOnlyAfterCompleteCrawl ==
  /\ report /= <<>> => pc = "reported" /\ todo = <<>> /\ ioerror = None
  /\ pc = "reported" => todo = <<>> /\ ioerror = None /\ args /= NoArgs
  /\ ioerror /= None => pc = "aborted" /\ report = <<>>
  /\ pc = "aborted" => ioerror \in {"download", "dir", "write", "output"} /\ report = <<>>

\* reached: a license file could not be written after a package was processed
\* and with work left in the queue; nothing is reported
C16_Witness ==
  /\ pc = "aborted"
  /\ ioerror = "write"
  /\ DOMAIN res /= {}
  /\ todo /= <<>>
  /\ report = <<>>

\* the graphs of InitGraph in which b lists at most one dependency and c none
InitCycles ==
  /\ InitGraph
  /\ pages["b"].deps \in LeafDeps
  /\ pages["c"].deps = <<>>

\* the inputs of InitLicenses with a download folder, one declared type and
\* one license text
InitFiles ==
  /\ InitLicenses
  /\ download = Dir
  /\ \A id \in Idents : pages[id].license = "MIT"
  /\ \A id \in Idents : licbody[id] \in {NoResponse, [status_code |-> 200, text |-> TextX]}

FairInit == InitLocals /\ (InitCycles \/ InitFiles)

\* scrape and main run on: a step that can be taken is taken (no statement of
\* the loop blocks, and every request is taken to be answered)
FairSpec == FairInit /\ [][Next]_vars /\ WF_vars(Next)

\* C17: for every dependency graph, cycles and self-dependencies included, and
\* any fetch outcomes, the loop is left; and when no download folder is asked
\* for (no file operation can fail) the queue becomes empty and scrape returns.
C17_ScrapeTerminates ==
  /\ <>(pc /= "loop")
  /\ (pc = "loop" /\ download = None) ~> (pc = "returned" /\ todo = <<>>)

\* reached: scrape returned from a graph with a cycle a -> b -> a and a
\* self-dependency of a, having skipped the items of visited idents
C17_Witness ==
  /\ pc = "returned"
  /\ todo = <<>>
  /\ {"a", "b"} \subseteq DOMAIN res
  /\ {"a", "b"} \subseteq Range(pages["a"].deps)
  /\ pages["b"].deps = <<"a">>
  /\ i > Cardinality(done)

\* the fields of a License other than its list of packages
Identity(l) == [name |-> l.name, type |-> l.type, shash |-> l.shash, path |-> l.path]

\* C18: in every step, each License entry stays in the map with its name, type,
\* content hash and path, and its list of packages is left alone or extended by
\* one ident at the end; and a step that adds a package whose hash was known
\* adds no entry and changes nothing but the packages list of that hash's
\* entry, by appending the package's ident.
C18_EntriesOnlyGrow ==
  [][ /\ \A h \in DOMAIN licenses :
           /\ h \in DOMAIN licenses'
           /\ Identity(licenses'[h]) = Identity(licenses[h])
           /\ \/ licenses'[h].packages = licenses[h].packages
              \/ \E p \in Idents : licenses'[h].packages = Append(licenses[h].packages, p)
      /\ \A p \in DOMAIN res' \ DOMAIN res :
           res'[p].license_hash \in DOMAIN licenses =>
             licenses' = [licenses EXCEPT ![res'[p].license_hash].packages = Append(@, p)]
    ]_vars

\* reached: a was registered under a new hash, b under another, and c was added
\* to a's entry
C18_Witness ==
  /\ added = <<"a", "b", "c">>
  /\ Cardinality(DOMAIN licenses) = 2
  /\ \E h \in DOMAIN licenses : licenses[h].packages = <<"a", "c">>

\* the places (entry, position) at which an ident stands in a packages list
Occurrences(p) ==
  UNION {{<<h, k>> : k \in {j \in 1..Len(licenses[h].packages) :
                              licenses[h].packages[j] = p}} : h \in DOMAIN licenses}

\* C19: after every iteration, each ident of the package map stands at exactly
\* one place of the packages lists of all License entries, a place in the entry
\* keyed by its Package's license_hash; and every ident of a packages list is a
\* key of the package map.
C19_PackagesListedOnce ==
  /\ \A p \in DOMAIN res :
       /\ Cardinality(Occurrences(p)) = 1
       /\ res[p].license_hash \in DOMAIN licenses
       /\ \A o \in Occurrences(p) : o[1] = res[p].license_hash
  /\ \A h \in DOMAIN licenses : Range(licenses[h].packages) \subseteq DOMAIN res

\* reached: three packages, two of them in the entry of the sentinel and one
\* in an entry of its own
C19_Witness ==
  /\ DOMAIN res = Idents
  /\ Cardinality(DOMAIN licenses) = 2
  /\ Unhashed \in DOMAIN licenses
  /\ Len(licenses[Unhashed].packages) = 2

\* C20: in every state, two License entries under different hashes have
\* different names (the declared types of the inputs are plain names, none of
\* the form T(n)).
C20_NamesDistinct ==
  \A h1, h2 \in DOMAIN licenses :
    h1 /= h2 => licenses[h1].name /= licenses[h2].name

\* reached: three entries of one declared type, named MIT, MIT(1) and MIT(2)
C20_Witness ==
  /\ Cardinality(DOMAIN licenses) = 3
  /\ {licenses[h].name : h \in DOMAIN licenses} = {"MIT", "MIT(1)", "MIT(2)"}

====
